---------------------------- MODULE Spec2Model ----------------------------
(***************************************************************************)
(* A model of app.py: the text reflow (parse_pdf_to_structured_blocks),    *)
(* the page grouper (group_blocks_into_screens) and the session state of   *)
(* the reading screen (page index, lookup slots, click handling).          *)
(*                                                                         *)
(* A Python str is a sequence of one-character strings.                    *)
(***************************************************************************)
EXTENDS Integers, Sequences, FiniteSets, TLC

VARIABLES
    \* parse_pdf_to_structured_blocks
    text, lines, line_no, blocks, current_text, current_type, ppc,
    \* group_blocks_into_screens
    gblocks, words_per_screen, gi, screens, current_screen,
    current_word_count, gpc,
    \* st.session_state and the script run
    reader_mode, all_screens, current_screen_index, slots, last_clicked,
    enable_image_gen, det_value, run_error, last_event

pvars == <<text, lines, line_no, blocks, current_text, current_type, ppc>>
gvars == <<gblocks, words_per_screen, gi, screens, current_screen,
           current_word_count, gpc>>
uvars == <<reader_mode, all_screens, current_screen_index, slots, last_clicked,
           enable_image_gen, det_value, run_error, last_event>>
vars == <<pvars, gvars, uvars>>

-----------------------------------------------------------------------------
(* Characters *)

UpperLetters == {"A","B","C","D","E","F","G","H","I","J","K","L","M",
                 "N","O","P","Q","R","S","T","U","V","W","X","Y","Z"}
LowerLetters == {"a","b","c","d","e","f","g","h","i","j","k","l","m",
                 "n","o","p","q","r","s","t","u","v","w","x","y","z"}
Digits == {"0","1","2","3","4","5","6","7","8","9"}
\* the characters str.strip() and str.split() treat as whitespace
WhiteSpace == {" ", "\t", "\n", "\r", "\f"}
\* the characters str.splitlines() breaks a line at
LineBreaks == {"\n", "\r", "\f"}
\* the character class [•·\-\*] of the bullet pattern
BulletChars == {"U+2022", "U+00B7", "-", "*"}
\* the characters the renderer strips from a word: .,!?"'()[]{}:;
StripPunct == {".", ",", "!", "?", "\"", "'", "(", ")", "[", "]", "{", "}", ":", ";"}

ToLower(c) ==
    CASE c = "A" -> "a" [] c = "B" -> "b" [] c = "C" -> "c" [] c = "D" -> "d"
      [] c = "E" -> "e" [] c = "F" -> "f" [] c = "G" -> "g" [] c = "H" -> "h"
      [] c = "I" -> "i" [] c = "J" -> "j" [] c = "K" -> "k" [] c = "L" -> "l"
      [] c = "M" -> "m" [] c = "N" -> "n" [] c = "O" -> "o" [] c = "P" -> "p"
      [] c = "Q" -> "q" [] c = "R" -> "r" [] c = "S" -> "s" [] c = "T" -> "t"
      [] c = "U" -> "u" [] c = "V" -> "v" [] c = "W" -> "w" [] c = "X" -> "x"
      [] c = "Y" -> "y" [] c = "Z" -> "z" [] OTHER -> c

-----------------------------------------------------------------------------
(* str methods *)

Min(S) == CHOOSE x \in S : \A y \in S : x <= y

\* the first position at or after i of a character not in chars (Len(s) + 1
\* if there is none)
RECURSIVE FirstKept(_, _, _)
FirstKept(s, chars, i) ==
    IF i > Len(s) \/ s[i] \notin chars THEN i ELSE FirstKept(s, chars, i + 1)

\* the last position at or before i of a character not in chars (0 if there
\* is none)
RECURSIVE LastKept(_, _, _)
LastKept(s, chars, i) ==
    IF i = 0 \/ s[i] \notin chars THEN i ELSE LastKept(s, chars, i - 1)

\* s.strip(chars): drop the leading and trailing characters that are in chars
StripChars(s, chars) ==
    SubSeq(s, FirstKept(s, chars, 1), LastKept(s, chars, Len(s)))

\* s.strip()
Strip(s) == StripChars(s, WhiteSpace)

\* s.endswith("-")
EndsWithHyphen(s) == Len(s) > 0 /\ s[Len(s)] = "-"

\* s.isupper(): at least one cased character and no lower-case one
IsUpper(s) ==
    /\ \E i \in 1..Len(s) : s[i] \in UpperLetters
    /\ \A i \in 1..Len(s) : s[i] \notin LowerLetters

\* the positions of t where a whitespace-delimited token starts
TokenStarts(t) ==
    {i \in 1..Len(t) : t[i] \notin WhiteSpace /\ (i = 1 \/ t[i-1] \in WhiteSpace)}

\* the last position of the token that position i is in
RECURSIVE TokenEnd(_, _)
TokenEnd(t, i) ==
    IF i = Len(t) \/ t[i+1] \in WhiteSpace THEN i ELSE TokenEnd(t, i + 1)

\* the tokens of t from position `from' on, where no token is under way
RECURSIVE SplitFrom(_, _)
SplitFrom(t, from) ==
    LET b == FirstKept(t, WhiteSpace, from)
    IN IF b > Len(t) THEN <<>>
       ELSE <<SubSeq(t, b, TokenEnd(t, b))>> \o SplitFrom(t, TokenEnd(t, b) + 1)

\* s.split(): the maximal runs of non-whitespace characters
Split(t) == SplitFrom(t, 1)

\* len(s.split())
WordCount(t) == Cardinality(TokenStarts(t))

\* the positions where a line of s ends: a line break that is not the "\r"
\* of a "\r\n" pair
BreakEnds(s) ==
    {i \in 1..Len(s) :
        /\ s[i] \in LineBreaks
        /\ ~(s[i] = "\r" /\ i < Len(s) /\ s[i+1] = "\n")}

RECURSIVE SplitLinesFrom(_, _)
SplitLinesFrom(s, from) ==
    IF from > Len(s) THEN <<>>
    ELSE LET ends == {i \in BreakEnds(s) : i >= from}
         IN IF ends = {} THEN <<SubSeq(s, from, Len(s))>>
            ELSE LET e == Min(ends)
                     last == IF s[e] = "\n" /\ e > from /\ s[e-1] = "\r"
                             THEN e - 2 ELSE e - 1
                 IN <<SubSeq(s, from, last)>> \o SplitLinesFrom(s, e + 1)

\* s.splitlines(): the lines of s without their line breaks; a final line
\* break opens no empty last line
SplitLines(s) == SplitLinesFrom(s, 1)

-----------------------------------------------------------------------------
(* parse_pdf_to_structured_blocks *)

\* s starts with word, compared case-insensitively (re.IGNORECASE)
StartsWithIgnoreCase(s, word) ==
    /\ Len(s) >= Len(word)
    /\ \A i \in 1..Len(word) : ToLower(s[i]) = word[i]

\* ^\d+X : one or more digits, then a character of class X at position k+1
DigitsThen(s, k) ==
    /\ k >= 1 /\ k <= Len(s)
    /\ \A i \in 1..k : s[i] \in Digits

\* re.match(r'^([•·\-\*]|\d+\.)', line)
IsBullet(line) ==
    /\ Len(line) > 0
    /\ \/ line[1] \in BulletChars
       \/ \E k \in 1..(Len(line) - 1) : DigitsThen(line, k) /\ line[k+1] = "."

\* re.match(r'^(Chapter|Section|\d+\s+[A-Z])', line, re.IGNORECASE):
\* under IGNORECASE the class [A-Z] takes a letter of either case
HeaderPattern(line) ==
    \/ StartsWithIgnoreCase(line, <<"c","h","a","p","t","e","r">>)
    \/ StartsWithIgnoreCase(line, <<"s","e","c","t","i","o","n">>)
    \/ \E k \in 1..Len(line) :
          /\ DigitsThen(line, k)
          /\ LET m == FirstKept(line, WhiteSpace, k + 1)
             IN /\ m > k + 1 /\ m <= Len(line)
                /\ line[m] \in UpperLetters \cup LowerLetters

\* line.isupper() or re.match(...)
IsHeader(line) == IsUpper(line) \/ HeaderPattern(line)

\* the type of the block a heading-or-bullet line becomes: is_header is
\* tested first, the list item is its else branch
StructuralType(line) == IF IsHeader(line) THEN "h" ELSE "li"

Block(type, txt) == [type |-> type, text |-> txt]

\* a flush that loses the paragraph
FlushParagraph_Lost(bs, ctext, ctype) == bs

\* if current_text: blocks.append({"type": current_type, "text": current_text})
FlushParagraph(bs, ctext, ctype) ==
    IF ctext # <<>> THEN Append(bs, Block(ctype, ctext)) ELSE bs

\* a join that forgets the separating space
JoinLine_NoSpace(ctext, line) ==
    IF ctext # <<>>
    THEN IF EndsWithHyphen(ctext)
         THEN SubSeq(ctext, 1, Len(ctext) - 1) \o line
         ELSE ctext \o line
    ELSE line

\* a join that keeps the hyphen of a wrapped word
JoinLine_KeepHyphen(ctext, line) ==
    IF ctext # <<>>
    THEN IF EndsWithHyphen(ctext) THEN ctext \o line ELSE ctext \o <<" ">> \o line
    ELSE line

\* the plain-line branch: the new value of current_text
JoinLine(ctext, line) ==
    IF ctext # <<>>
    THEN IF EndsWithHyphen(ctext)
         THEN SubSeq(ctext, 1, Len(ctext) - 1) \o line
         ELSE ctext \o <<" ">> \o line
    ELSE line

\* one pass of the loop body over a raw line; st is the triple of locals
ParseLineStep(st, rawline) ==
    LET line == Strip(rawline)
    IN IF line = <<>> THEN st
       ELSE IF IsHeader(line) \/ IsBullet(line)
       THEN [blocks |-> Append(FlushParagraph(st.blocks, st.current_text,
                                              st.current_type),
                               Block(StructuralType(line), line)),
             current_text |-> <<>>,
             current_type |-> st.current_type]
       ELSE [blocks |-> st.blocks,
             current_text |-> JoinLine(st.current_text, line),
             current_type |-> IF st.current_text # <<>>
                              THEN st.current_type ELSE "p"]

RECURSIVE ParseLoop(_, _, _)
ParseLoop(st, ls, i) ==
    IF i > Len(ls) THEN st ELSE ParseLoop(ParseLineStep(st, ls[i]), ls, i + 1)

ParseLocals0 == [blocks |-> <<>>, current_text |-> <<>>, current_type |-> "p"]

\* the whole function, as the upload handler calls it
parse_pdf_to_structured_blocks(txt) ==
    IF txt = <<>> THEN <<>>
    ELSE LET st == ParseLoop(ParseLocals0, SplitLines(txt), 1)
         IN FlushParagraph(st.blocks, st.current_text, st.current_type)

-----------------------------------------------------------------------------
(* group_blocks_into_screens *)

\* the default of words_per_screen, and the value the upload handler passes
DefaultWordsPerScreen == 500

\* the running word count a screen must exceed before it may be closed
MinimumFill == 100

\* a close test without the minimum-fill condition
ShouldClose_NoMinimumFill(cwc, bwc, wps) == cwc + bwc > wps

\* current_word_count + block_word_count > words_per_screen
\*     and current_word_count > 100
ShouldClose(cwc, bwc, wps) == cwc + bwc > wps /\ cwc > MinimumFill

\* one pass of the loop body; st is the triple of locals
GroupStep(st, block, wps) ==
    LET block_word_count == WordCount(block.text)
        base == IF ShouldClose(st.current_word_count, block_word_count, wps)
                THEN [screens |-> Append(st.screens, st.current_screen),
                      current_screen |-> <<>>,
                      current_word_count |-> 0]
                ELSE st
    IN [screens |-> base.screens,
        current_screen |-> Append(base.current_screen, block),
        current_word_count |-> base.current_word_count + block_word_count]

\* if current_screen: screens.append(current_screen)
FinalScreens(st) ==
    IF st.current_screen # <<>> THEN Append(st.screens, st.current_screen)
    ELSE st.screens

RECURSIVE GroupLoop(_, _, _, _)
GroupLoop(st, bs, i, wps) ==
    IF i > Len(bs) THEN st ELSE GroupLoop(GroupStep(st, bs[i], wps), bs, i + 1, wps)

GroupLocals0 == [screens |-> <<>>, current_screen |-> <<>>, current_word_count |-> 0]

\* the whole function, as the upload handler calls it
group_blocks_into_screens(bs, wps) == FinalScreens(GroupLoop(GroupLocals0, bs, 1, wps))

-----------------------------------------------------------------------------
(* The parser run line by line *)

MaxLines == 3

\* the raw lines the input texts are made of
LineSet ==
    { <<"e","x","a","m","-">>,          \* plain, ends with a hyphen
      <<"p","l","e">>,                  \* plain
      <<"-"," ","a">>,                  \* bullet
      <<"-"," ","A","B">>,              \* bullet marker, upper-case letters
      <<"1","."," ","a">>,              \* numbered bullet
      <<"A","B">>,                      \* upper-case heading
      <<"c","h","a","p","t","e","r">>,  \* keyword heading
      <<"1"," ","a">>,                  \* number + letter heading
      <<>>,                             \* blank
      <<"\t">>,                         \* whitespace only
      <<" ","a"," "," ","b"," ">>,      \* plain, padded
      <<"x"," ","-">>,                  \* plain, ends with a lone hyphen
      <<"b","\r">> }                    \* plain, ends with a carriage return

\* each line followed by "\n", as the upload handler builds full_text
RECURSIVE JoinLines(_)
JoinLines(ls) ==
    IF ls = <<>> THEN <<>> ELSE ls[1] \o <<"\n">> \o JoinLines(Tail(ls))

ParseIdle ==
    /\ text = <<>> /\ lines = <<>> /\ line_no = 0 /\ blocks = <<>>
    /\ current_text = <<>> /\ current_type = "p" /\ ppc = "idle"

GroupIdle ==
    /\ gblocks = <<>> /\ words_per_screen = 0 /\ gi = 0 /\ screens = <<>>
    /\ current_screen = <<>> /\ current_word_count = 0 /\ gpc = "idle"

AppIdle ==
    /\ reader_mode = FALSE /\ all_screens = <<>> /\ current_screen_index = 0
    /\ slots = <<>> /\ last_clicked = <<>> /\ enable_image_gen = FALSE
    /\ det_value = <<>> /\ run_error = "none" /\ last_event = "idle"

ParseInit ==
    /\ \E n \in 0..MaxLines : \E ls \in [1..n -> LineSet] : text = JoinLines(ls)
    /\ lines = <<>> /\ line_no = 0 /\ blocks = <<>>
    /\ current_text = <<>> /\ current_type = "p" /\ ppc = "start"
    /\ GroupIdle /\ AppIdle

ParseLocals == [blocks |-> blocks, current_text |-> current_text,
                current_type |-> current_type]

SetParseLocals(st) ==
    /\ blocks' = st.blocks
    /\ current_text' = st.current_text
    /\ current_type' = st.current_type

\* if not text: return []
ParseEmptyText ==
    /\ ppc = "start" /\ text = <<>>
    /\ blocks' = <<>> /\ ppc' = "done"
    /\ UNCHANGED <<text, lines, line_no, current_text, current_type, gvars, uvars>>

\* lines = text.splitlines() and the locals' initial values
ParseSplitLines ==
    /\ ppc = "start" /\ text # <<>>
    /\ lines' = SplitLines(text) /\ line_no' = 1
    /\ SetParseLocals(ParseLocals0)
    /\ ppc' = "loop"
    /\ UNCHANGED <<text, gvars, uvars>>

\* if not line: continue
ParseBlankLine ==
    /\ ppc = "loop" /\ line_no <= Len(lines)
    /\ Strip(lines[line_no]) = <<>>
    /\ SetParseLocals(ParseLineStep(ParseLocals, lines[line_no]))
    /\ line_no' = line_no + 1
    /\ UNCHANGED <<text, lines, ppc, gvars, uvars>>

\* if is_header or is_bullet: ...
ParseStructuralLine ==
    /\ ppc = "loop" /\ line_no <= Len(lines)
    /\ LET line == Strip(lines[line_no])
       IN line # <<>> /\ (IsHeader(line) \/ IsBullet(line))
    /\ SetParseLocals(ParseLineStep(ParseLocals, lines[line_no]))
    /\ line_no' = line_no + 1
    /\ UNCHANGED <<text, lines, ppc, gvars, uvars>>

\* else: ...
ParsePlainLine ==
    /\ ppc = "loop" /\ line_no <= Len(lines)
    /\ LET line == Strip(lines[line_no])
       IN line # <<>> /\ ~(IsHeader(line) \/ IsBullet(line))
    /\ SetParseLocals(ParseLineStep(ParseLocals, lines[line_no]))
    /\ line_no' = line_no + 1
    /\ UNCHANGED <<text, lines, ppc, gvars, uvars>>

\* the final flush and return blocks
ParseReturn ==
    /\ ppc = "loop" /\ line_no > Len(lines)
    /\ blocks' = FlushParagraph(blocks, current_text, current_type)
    /\ ppc' = "done"
    /\ UNCHANGED <<text, lines, line_no, current_text, current_type, gvars, uvars>>

ParseNext ==
    \/ ParseEmptyText
    \/ ParseSplitLines
    \/ ParseBlankLine
    \/ ParseStructuralLine
    \/ ParsePlainLine
    \/ ParseReturn

ParseSpec == ParseInit /\ [][ParseNext]_vars

-----------------------------------------------------------------------------
(* Properties of the parser *)

RECURSIVE Flatten(_)
Flatten(ss) == IF ss = <<>> THEN <<>> ELSE ss[1] \o Flatten(Tail(ss))

IsNonBlank(l) == l # <<>>
IsStructural(l) == IsHeader(l) \/ IsBullet(l)
IsPlain(l) == l # <<>> /\ ~IsStructural(l)

\* the input's non-blank lines, stripped, in input order
NonBlankLines ==
    LET ls == SplitLines(text)
    IN SelectSeq([i \in 1..Len(ls) |-> Strip(ls[i])], IsNonBlank)

\* the whitespace-delimited tokens of the input's non-blank lines
InTokens == Flatten([i \in 1..Len(NonBlankLines) |-> Split(NonBlankLines[i])])

\* the whitespace-delimited tokens of the block texts, in block order
OutTokens == Flatten([i \in 1..Len(blocks) |-> Split(blocks[i].text)])

\* line i of the non-blank lines is a plain line that ends in "-" and the
\* next non-blank line is plain too
IsJoinPoint(nb, i) ==
    /\ i < Len(nb)
    /\ IsPlain(nb[i]) /\ EndsWithHyphen(nb[i])
    /\ IsPlain(nb[i+1])

\* the non-blank lines written one after the other with a space between
\* them, except at a join point: there the line loses its last character
\* and no space follows it
DehyphenatedText(nb) ==
    Flatten([i \in 1..Len(nb) |->
                IF IsJoinPoint(nb, i)
                THEN SubSeq(nb[i], 1, Len(nb[i]) - 1)
                ELSE nb[i] \o <<" ">>])

ParseDone == ppc = "done" /\ text # <<>>

\* C3 (as claimed): a line that matches the bullet pattern is emitted as a
\* list item, also when the heading heuristic matches it too: right after
\* such a line is processed the newest block is a list item.
C3_BulletBeforeHeading ==
    (ppc = "loop" /\ line_no > 1 /\ IsBullet(Strip(lines[line_no - 1])))
        => blocks[Len(blocks)].type = "li"

\* C5 (as claimed): for a non-empty text the tokens of the block texts, in
\* block order, are exactly the tokens of the input's non-blank lines.
C5_TokensPreserved == ParseDone => OutTokens = InTokens

\* C5 (amended): the tokens of the block texts are the tokens of the
\* non-blank lines, except that where a plain line ending in "-" is directly
\* followed by a plain line the hyphen is dropped and the two lines are
\* written together; with no such pair of lines the tokens are unchanged.
C5_TokensPreservedUpToHyphenJoin ==
    ParseDone =>
        /\ OutTokens = Split(DehyphenatedText(NonBlankLines))
        /\ (\A i \in 1..Len(NonBlankLines) : ~IsJoinPoint(NonBlankLines, i))
              => OutTokens = InTokens

\* a text with a hyphen join, parsed to its end
C5_Witness ==
    /\ ParseDone
    /\ \E i \in 1..Len(NonBlankLines) : IsJoinPoint(NonBlankLines, i)
    /\ Len(blocks) >= 2
    /\ OutTokens # InTokens

ExamPle == <<"e","x","a","m","-","\n","p","l","e","\n">>
Example == <<"e","x","a","m","p","l","e">>

\* C6: a plain line met with a non-empty buffer that ends in "-" replaces
\* the hyphen (no space); met with any other non-empty buffer it is added
\* after exactly one space; met with an empty buffer it becomes the buffer.
\* The lines "exam-", "ple" give the one paragraph "example".
C6_HyphenJoin ==
    /\ [](ppc = "done" /\ text = ExamPle => blocks = <<Block("p", Example)>>)
    /\ [][(ppc = "loop" /\ line_no' = line_no + 1 /\ IsPlain(Strip(lines[line_no])))
            => LET line == Strip(lines[line_no])
                   n == Len(current_text)
               IN /\ blocks' = blocks
                  /\ n = 0 => current_text' = line
                  /\ (n > 0 /\ current_text[n] = "-") =>
                        /\ Len(current_text') = n - 1 + Len(line)
                        /\ SubSeq(current_text', 1, n - 1) = SubSeq(current_text, 1, n - 1)
                        /\ SubSeq(current_text', n, Len(current_text')) = line
                  /\ (n > 0 /\ current_text[n] # "-") =>
                        /\ Len(current_text') = n + 1 + Len(line)
                        /\ SubSeq(current_text', 1, n) = current_text
                        /\ current_text'[n + 1] = " "
                        /\ SubSeq(current_text', n + 2, Len(current_text')) = line
          ]_vars

\* the lines "exam-", "ple" parsed into the paragraph "example"
C6_Witness == ppc = "done" /\ text = ExamPle /\ blocks = <<Block("p", Example)>>

\* "s" for a heading or bullet line, "p" for the first line of a run of
\* plain lines, nothing for the later lines of the run
RunKinds(nb) ==
    SelectSeq([i \in 1..Len(nb) |->
                  IF IsStructural(nb[i]) THEN "s"
                  ELSE IF i > 1 /\ IsPlain(nb[i-1]) THEN "-" ELSE "p"],
              LAMBDA k : k # "-")

IsStructuralBlock(b) == b.type # "p"

\* C7: the heading and list-item blocks are, in order, exactly the heading
\* and bullet lines (one block per line, its text the stripped line); the
\* blocks alternate with paragraphs as the lines do: one paragraph per run
\* of plain lines between two such lines, whatever blank lines the run holds.
C7_StructuralLinesStandAlone ==
    ParseDone =>
        /\ LET sb == SelectSeq(blocks, IsStructuralBlock)
           IN [i \in 1..Len(sb) |-> sb[i].text]
                 = SelectSeq(NonBlankLines, IsStructural)
        /\ [i \in 1..Len(blocks) |-> IF blocks[i].type = "p" THEN "p" ELSE "s"]
              = RunKinds(NonBlankLines)
        /\ \A i \in 1..Len(blocks) : blocks[i].text # <<>>

\* a paragraph, a heading or list item, and a new paragraph after it
C7_Witness ==
    /\ ParseDone
    /\ Len(blocks) = 3
    /\ blocks[1].type = "p" /\ blocks[2].type # "p" /\ blocks[3].type = "p"

-----------------------------------------------------------------------------
(* The grouper run block by block *)

MaxBlocks == 3

\* a text of n one-letter words
Words(n) == [i \in 1..(2 * n - 1) |-> IF i % 2 = 1 THEN "w" ELSE " "]

\* the word counts of the input blocks
BlockWords == {0, 1, 100, 101, 401, 501}

BlockSet == {Block("p", Words(n)) : n \in BlockWords}

\* the budgets the function is called with
Budgets == {-3, 0, 1, 120, DefaultWordsPerScreen}

GroupInit ==
    /\ \E n \in 0..MaxBlocks : \E bs \in [1..n -> BlockSet] : gblocks = bs
    /\ words_per_screen \in Budgets
    /\ gi = 1 /\ screens = <<>> /\ current_screen = <<>>
    /\ current_word_count = 0 /\ gpc = "loop"
    /\ ParseIdle /\ AppIdle

GroupLocals == [screens |-> screens, current_screen |-> current_screen,
                current_word_count |-> current_word_count]

SetGroupLocals(st) ==
    /\ screens' = st.screens
    /\ current_screen' = st.current_screen
    /\ current_word_count' = st.current_word_count

\* a pass of the loop that closes the current screen before it adds the block
GroupCloseAndAdd ==
    /\ gpc = "loop" /\ gi <= Len(gblocks)
    /\ ShouldClose(current_word_count, WordCount(gblocks[gi].text), words_per_screen)
    /\ SetGroupLocals(GroupStep(GroupLocals, gblocks[gi], words_per_screen))
    /\ gi' = gi + 1
    /\ UNCHANGED <<gblocks, words_per_screen, gpc, pvars, uvars>>

\* a pass of the loop that adds the block to the current screen
GroupAdd ==
    /\ gpc = "loop" /\ gi <= Len(gblocks)
    /\ ~ShouldClose(current_word_count, WordCount(gblocks[gi].text), words_per_screen)
    /\ SetGroupLocals(GroupStep(GroupLocals, gblocks[gi], words_per_screen))
    /\ gi' = gi + 1
    /\ UNCHANGED <<gblocks, words_per_screen, gpc, pvars, uvars>>

\* the final screen and return screens
GroupReturn ==
    /\ gpc = "loop" /\ gi > Len(gblocks)
    /\ screens' = FinalScreens(GroupLocals)
    /\ gpc' = "done"
    /\ UNCHANGED <<gblocks, words_per_screen, gi, current_screen,
                   current_word_count, pvars, uvars>>

GroupNext ==
    \/ GroupCloseAndAdd
    \/ GroupAdd
    \/ GroupReturn

GroupSpec == GroupInit /\ [][GroupNext]_vars

-----------------------------------------------------------------------------
(* Properties of the grouper *)

\* the total word count of the first j blocks of a page
RECURSIVE PrefixWords(_, _)
PrefixWords(page, j) ==
    IF j = 0 THEN 0 ELSE PrefixWords(page, j - 1) + WordCount(page[j].text)

PageWords(page) == PrefixWords(page, Len(page))

\* the blocks of a page that took it over the budget when they were added
Overflowing(page, wps) ==
    {j \in 1..Len(page) : PrefixWords(page, j) > wps}

\* the word count the page held when its first overflowing block was added
HeldAtOverflow(page, wps) == PrefixWords(page, Min(Overflowing(page, wps)) - 1)

\* C1: for a positive budget the pages, one after the other, are the input
\* block list, and no page is empty.
C1_PagesReconstructBlocks ==
    (gpc = "done" /\ words_per_screen > 0) =>
        /\ Flatten(screens) = gblocks
        /\ \A i \in 1..Len(screens) : screens[i] # <<>>

\* three or more blocks returned as several pages, one of several blocks
C1_Witness ==
    /\ gpc = "done" /\ words_per_screen > 0
    /\ Len(gblocks) >= 3 /\ Len(screens) >= 2
    /\ \E i \in 1..Len(screens) : Len(screens[i]) >= 2

\* C2 (as claimed): a returned page exceeds the budget only if it is a
\* single block, or held fewer than 100 words when the overflowing block
\* was added.
C2_BudgetUnlessBelowMinimumFill ==
    gpc = "done" =>
        \A i \in 1..Len(screens) :
            PageWords(screens[i]) > words_per_screen =>
                \/ Len(screens[i]) = 1
                \/ HeldAtOverflow(screens[i], words_per_screen) < MinimumFill

\* What the code does keep (C2 with the boundary moved): a returned page
\* exceeds the budget only if it held at most 100 words when the overflowing
\* block was added (an empty page that takes a block larger than the budget
\* included); the current page is closed before a block is added whenever
\* running total + block words exceeds the budget and the running total
\* exceeds 100.
BudgetUnlessAtMostMinimumFill ==
    /\ [](gpc = "done" =>
            \A i \in 1..Len(screens) :
                PageWords(screens[i]) > words_per_screen =>
                    /\ Overflowing(screens[i], words_per_screen) # {}
                    /\ HeldAtOverflow(screens[i], words_per_screen) <= MinimumFill)
    /\ [][(/\ gpc = "loop" /\ gi' = gi + 1
           /\ current_word_count + WordCount(gblocks[gi].text) > words_per_screen
           /\ current_word_count > MinimumFill)
            => /\ screens' = Append(screens, current_screen)
               /\ current_screen' = <<gblocks[gi]>>
               /\ current_word_count' = WordCount(gblocks[gi].text)]_vars

\* a page over the budget that held exactly 100 words when it overflowed
BoundaryPageReturned ==
    /\ gpc = "done" /\ words_per_screen = DefaultWordsPerScreen
    /\ Len(screens) >= 2
    /\ \E i \in 1..Len(screens) :
          /\ Len(screens[i]) >= 2
          /\ PageWords(screens[i]) > words_per_screen
          /\ HeldAtOverflow(screens[i], words_per_screen) = MinimumFill

\* C4 (as claimed): a call with a zero or negative budget is rejected: it
\* never returns a page list.
C4_NonPositiveBudgetRejected == ~(gpc = "done" /\ words_per_screen <= 0)

-----------------------------------------------------------------------------
(* The session state and the script runs of the application *)

\* the length of the lookup history
NumSlots == 7

\* an empty slot
None == [empty |-> TRUE]

\* [None] * n
Nones(n) == [i \in 1..n |-> None]

\* str(n) for n >= 0
RECURSIVE Decimal(_)
Decimal(n) ==
    LET d == CASE n % 10 = 0 -> "0" [] n % 10 = 1 -> "1" [] n % 10 = 2 -> "2"
               [] n % 10 = 3 -> "3" [] n % 10 = 4 -> "4" [] n % 10 = 5 -> "5"
               [] n % 10 = 6 -> "6" [] n % 10 = 7 -> "7" [] n % 10 = 8 -> "8"
               [] OTHER -> "9"
    IN IF n < 10 THEN <<d>> ELSE Decimal(n \div 10) \o <<d>>

\* f"wd{word_counter}_{clean_w}"
UniqueId(word_counter, clean_w) ==
    <<"w", "d">> \o Decimal(word_counter) \o <<"_">> \o clean_w

\* s.split("_", 1)
SplitOnceUnderscore(s) ==
    LET at == {i \in 1..Len(s) : s[i] = "_"}
    IN IF at = {} THEN <<s>>
       ELSE <<SubSeq(s, 1, Min(at) - 1), SubSeq(s, Min(at) + 1, Len(s))>>

\* the ids of the links the renderer makes of the words of a block text from
\* position `from' on, the first of them numbered `counter', up to `limit'
\* links: a word all of punctuation gets no link and no number
RECURSIVE TextLinkIds(_, _, _, _)
TextLinkIds(t, from, counter, limit) ==
    LET b == FirstKept(t, WhiteSpace, from)
    IN IF limit = 0 \/ b > Len(t) THEN <<>>
       ELSE LET e == TokenEnd(t, b)
                clean_w == StripChars(SubSeq(t, b, e), StripPunct)
            IN IF clean_w = <<>> THEN TextLinkIds(t, e + 1, counter, limit)
               ELSE <<UniqueId(counter, clean_w)>>
                      \o TextLinkIds(t, e + 1, counter + 1, limit - 1)

\* the ids of the first `limit' links of a screen: headings have no links
RECURSIVE LinkIds(_, _, _, _)
LinkIds(current_blocks, bi, counter, limit) ==
    IF limit = 0 \/ bi > Len(current_blocks) THEN <<>>
    ELSE IF current_blocks[bi].type = "h"
    THEN LinkIds(current_blocks, bi + 1, counter, limit)
    ELSE LET ids == TextLinkIds(current_blocks[bi].text, 1, counter, limit)
         IN ids \o LinkIds(current_blocks, bi + 1, counter + Len(ids),
                           limit - Len(ids))

\* the dictionary analyze_chunk_with_gpt returns when the request fails
GptFallback(target_word) == [chunk |-> target_word, meaning |-> "Error"]

\* the JSON objects the model may answer with: the keys are asked for in the
\* prompt, nothing checks that they are there
GptAnswers(target_word) ==
    { [chunk |-> target_word, meaning |-> "meaning"],
      [meaning |-> "meaning"] }

\* what analyze_chunk_with_gpt returns
GptResults(target_word) == {GptFallback(target_word)} \cup GptAnswers(target_word)

\* curr.pop(); curr.insert(0, entry); curr[:7] + [None] * (7 - len(curr))
NewSlots(curr, entry) ==
    LET popped == SubSeq(curr, 1, Len(curr) - 1)
        inserted == <<entry>> \o popped
    IN SubSeq(inserted, 1, IF Len(inserted) < NumSlots THEN Len(inserted) ELSE NumSlots)
          \o Nones(NumSlots - Len(inserted))

\* a next-page step that stops one page late
NextIndex_OffByOne(i, n) == IF i < n THEN i + 1 ELSE i

\* the index after the next button: it moves below the last screen only
NextIndex(i, n) == IF i < n - 1 THEN i + 1 ELSE i

\* the index after the previous button: it moves above the first screen only
PrevIndex(i) == IF i > 0 THEN i - 1 ELSE i

\* the number of links of a screen a click is drawn from
MaxLinks == 2

\* the texts PdfReader extracts from the uploaded files (each page's text
\* followed by "\n"): a file without pages, a page without text, a short
\* document of one screen, a long document of three screens
UploadTexts ==
    { <<>>,
      <<"\n">>,
      JoinLines(<< <<"A","B">>, <<"x"," ","y",".">> >>),
      JoinLines(<< Words(101), <<"A","B">>, Words(400), <<"A","B">>, Words(100) >>) }

\* the session initialisation
AppInit ==
    /\ last_clicked = <<>>
    /\ slots = Nones(NumSlots)
    /\ reader_mode = FALSE
    /\ all_screens = <<>>
    /\ current_screen_index = 0
    /\ enable_image_gen = FALSE
    /\ det_value = <<>> /\ run_error = "none" /\ last_event = "init"
    /\ ParseIdle /\ GroupIdle

\* the click handling of a new click: the lookup and the slot update
ClickHandling(clicked) ==
    LET parts == SplitOnceUnderscore(clicked)
    IN /\ last_clicked' = clicked
       /\ IF Len(parts) = 2
          THEN \/ \* analyze_chunk_with_gpt raises before its try block
                  /\ run_error' = "Exception"
                  /\ slots' = slots
               \/ \E result \in GptResults(parts[2]) :
                     IF "chunk" \in DOMAIN result
                     THEN /\ slots' = NewSlots(slots, [chunk |-> result.chunk,
                                                       info |-> result])
                          /\ run_error' = "none"
                     ELSE \* result["chunk"] raises after curr.pop()
                          /\ slots' = SubSeq(slots, 1, Len(slots) - 1)
                          /\ run_error' = "KeyError"
          ELSE /\ slots' = slots
               /\ run_error' = "none"

\* the reading screen from the text column on, in a run where no button
\* restarted the script: `clicked' is assigned only if there are screens
ReaderTail(scr, clicked) ==
    IF scr = <<>>
    THEN /\ run_error' = "NameError"
         /\ UNCHANGED <<slots, last_clicked>>
    ELSE IF clicked # <<>> /\ clicked # last_clicked
    THEN ClickHandling(clicked)
    ELSE /\ run_error' = "none"
         /\ UNCHANGED <<slots, last_clicked>>

\* a file is uploaded on the initial screen; st.rerun() shows the reader
Upload ==
    /\ ~reader_mode
    /\ \E full_text \in UploadTexts :
          LET structured_blocks == parse_pdf_to_structured_blocks(full_text)
              new == group_blocks_into_screens(structured_blocks,
                                               DefaultWordsPerScreen)
          IN /\ all_screens' = new
             /\ ReaderTail(new, <<>>)
    /\ current_screen_index' = 0
    /\ reader_mode' = TRUE
    /\ det_value' = <<>>
    /\ last_event' = "upload"
    /\ UNCHANGED <<enable_image_gen, pvars, gvars>>

\* the previous-page button
Prev ==
    /\ reader_mode
    /\ current_screen_index' = PrevIndex(current_screen_index)
    /\ IF current_screen_index' # current_screen_index
       THEN \* st.rerun(): the click detector of the new page has no value
            /\ det_value' = <<>>
            /\ ReaderTail(all_screens, <<>>)
       ELSE /\ det_value' = det_value
            /\ ReaderTail(all_screens, det_value)
    /\ last_event' = "prev"
    /\ UNCHANGED <<reader_mode, all_screens, enable_image_gen, pvars, gvars>>

\* the next-page button
Next ==
    /\ reader_mode
    /\ current_screen_index' = NextIndex(current_screen_index, Len(all_screens))
    /\ IF current_screen_index' # current_screen_index
       THEN /\ det_value' = <<>>
            /\ ReaderTail(all_screens, <<>>)
       ELSE /\ det_value' = det_value
            /\ ReaderTail(all_screens, det_value)
    /\ last_event' = "next"
    /\ UNCHANGED <<reader_mode, all_screens, enable_image_gen, pvars, gvars>>

\* the image generation checkbox
ToggleImageGen ==
    /\ reader_mode
    /\ enable_image_gen' = ~enable_image_gen
    /\ ReaderTail(all_screens, det_value)
    /\ last_event' = "toggle"
    /\ UNCHANGED <<reader_mode, all_screens, current_screen_index, det_value,
                   pvars, gvars>>

\* the close button; st.rerun() shows the initial screen
Close ==
    /\ reader_mode
    /\ reader_mode' = FALSE
    /\ slots' = Nones(NumSlots)
    /\ det_value' = <<>>
    /\ run_error' = "none"
    /\ last_event' = "close"
    /\ UNCHANGED <<all_screens, current_screen_index, last_clicked,
                   enable_image_gen, pvars, gvars>>

\* a word of the current screen is clicked
WordClick ==
    /\ reader_mode /\ all_screens # <<>>
    /\ LET ids == LinkIds(all_screens[current_screen_index + 1], 1, 0, MaxLinks)
       IN \E k \in 1..Len(ids) :
             /\ det_value' = ids[k]
             /\ ReaderTail(all_screens, ids[k])
    /\ last_event' = "click"
    /\ UNCHANGED <<reader_mode, all_screens, current_screen_index,
                   enable_image_gen, pvars, gvars>>

AppNext ==
    \/ Upload
    \/ Prev
    \/ Next
    \/ ToggleImageGen
    \/ Close
    \/ WordClick

AppSpec == AppInit /\ [][AppNext]_vars

-----------------------------------------------------------------------------
(* Properties of the application *)

\* C8 (as claimed): after an upload that yields no text, and so no screens,
\* every run of the reading screen completes without an error.
C8_EmptyDocumentRunsClean ==
    (reader_mode /\ all_screens = <<>>) => run_error = "none"

\* C9: the page index is never negative and, when there are screens, names
\* one of them; previous at the first screen and next at the last leave it
\* unchanged; an upload sets it to 0.
C9_IndexInRange ==
    /\ [](/\ current_screen_index >= 0
          /\ all_screens # <<>> => current_screen_index < Len(all_screens))
    /\ [][(last_event' = "prev" /\ current_screen_index = 0)
            => current_screen_index' = current_screen_index]_vars
    /\ [][(last_event' = "next" /\ current_screen_index >= Len(all_screens) - 1)
            => current_screen_index' = current_screen_index]_vars
    /\ [][last_event' = "upload" => current_screen_index' = 0]_vars

\* the next button at the last of three screens, after a lookup
C9_Witness ==
    /\ reader_mode /\ Len(all_screens) = 3
    /\ current_screen_index = Len(all_screens) - 1
    /\ last_event = "next"
    /\ slots[1] # None

\* C10 (as claimed): the lookup history always has 7 slots; a click that is
\* handled to its end puts the lookup in the first slot and moves the others
\* down by one, the last one out; close empties the 7 slots; a click on the
\* token clicked last changes nothing.
C10_SevenSlotHistory ==
    /\ [](Len(slots) = NumSlots)
    /\ [][(last_event' = "click" /\ last_clicked' # last_clicked
             /\ run_error' = "none")
            => /\ slots'[1] # None
               /\ \A i \in 1..(NumSlots - 1) : slots'[i + 1] = slots[i]]_vars
    /\ [][last_event' = "close" => slots' = Nones(NumSlots)]_vars
    /\ [][(last_event' = "click" /\ det_value' = last_clicked)
            => slots' = slots]_vars

\* What the code does keep (C10 for a full history and a lookup that carries
\* its chunk): the click handled to its end leaves 7 slots, the lookup first
\* and the others moved down by one.
ShiftWhenChunkPresent ==
    [][(last_event' = "click" /\ last_clicked' # last_clicked
          /\ run_error' = "none" /\ Len(slots) = NumSlots)
         => /\ Len(slots') = NumSlots
            /\ slots'[1] # None
            /\ \A i \in 1..(NumSlots - 1) : slots'[i + 1] = slots[i]]_vars

=============================================================================
